---------------------------- MODULE Spec2Model ----------------------------
(***************************************************************************)
(* Model of the session / averaging state machine and of the wire encoder  *)
(* of src/test2.py (class InstrumentUI).                                   *)
(*                                                                         *)
(* The program runs on one Qt event loop.  A handler runs to completion    *)
(* except where it opens a modal dialog (QInputDialog.getInt, the save     *)
(* file dialog, QMessageBox.critical): a modal dialog runs a nested event  *)
(* loop in which the 1 s QTimer keeps firing _timer_tick and the clock     *)
(* keeps running, while clicks on the main window are blocked.  pc is the  *)
(* position of the (single) handler that is suspended in such a dialog, or *)
(* in a serial write that does not return ("write_blocked": no nested      *)
(* loop runs there, so nothing is dispatched).                             *)
(*                                                                         *)
(* Time is counted in whole units; time.time() and datetime.now() both     *)
(* read the clock `now`.  Widget texts and styles are written, never read  *)
(* back, and are left out.                                                 *)
(***************************************************************************)
EXTENDS Integers, Sequences, FiniteSets, TLC

rows == 8
cols == 12
\* QInputDialog.getInt(..., min, max, step)
MinBrightness == 0
MaxBrightness == 100

\* Bounds of the model
MaxTime == 2
MaxClicks == 2

\* Values a user may try to enter in the brightness dialog
TypedValues == {0, 30, 100, 150}
\* The grid buttons the model clicks
EditCells == {<<3, 5>>, <<7, 11>>}

Cells == (0..(rows - 1)) \X (0..(cols - 1))

\* Python's None and a present value
None == <<>>
Some(x) == <<x>>
Val(o) == o[1]

VARIABLES
    instrument_on,        \* self.instrument_on
    start_time,           \* self.start_time (None or epoch seconds)
    start_datetime,       \* self.start_datetime (None or wall clock)
    brightness_values,    \* self.brightness_values[r][c]
    brightness_time_sum,  \* self.brightness_time_sum[r][c]
    last_update_time,     \* self.last_update_time[r][c] (None or epoch seconds)
    simulation_mode,      \* self.simulation_mode
    is_open,              \* self.serial_conn.is_open
    now,                  \* the clock
    pc,                   \* where the suspended handler waits ("idle": none)
    click,                \* (row, col) of _on_button_click while its dialog is open
    cont,                 \* the handler whose send_matrix has not returned yet
    off_now,              \* local `now` of _turn_off
    end_datetime,         \* local end_datetime of save_session_data
    total_time,           \* local total_time of save_session_data
    wire,                 \* the frame send_matrix built last (the last attempted frame)
    sent,                 \* what the last step's send_matrix calls did, in order
    saved,                \* the session summary the last step wrote, or None
    clicks,               \* number of grid button clicks so far (bounded by MaxClicks)
    integral              \* history: time integral of each cell's brightness over the session

vars == <<instrument_on, start_time, start_datetime, brightness_values,
          brightness_time_sum, last_update_time, simulation_mode, is_open,
          now, pc, click, cont, off_now, end_datetime, total_time,
          wire, sent, saved, clicks, integral>>

\* The state as one record, so that a handler is a function from state to state
Cur ==
    [instrument_on |-> instrument_on, start_time |-> start_time,
     start_datetime |-> start_datetime, brightness_values |-> brightness_values,
     brightness_time_sum |-> brightness_time_sum,
     last_update_time |-> last_update_time, simulation_mode |-> simulation_mode,
     is_open |-> is_open, now |-> now, pc |-> pc, click |-> click, cont |-> cont,
     off_now |-> off_now, end_datetime |-> end_datetime, total_time |-> total_time,
     wire |-> wire, sent |-> sent, saved |-> saved, clicks |-> clicks,
     integral |-> integral]

Apply(s) ==
    /\ instrument_on' = s.instrument_on
    /\ start_time' = s.start_time
    /\ start_datetime' = s.start_datetime
    /\ brightness_values' = s.brightness_values
    /\ brightness_time_sum' = s.brightness_time_sum
    /\ last_update_time' = s.last_update_time
    /\ simulation_mode' = s.simulation_mode
    /\ is_open' = s.is_open
    /\ now' = s.now
    /\ pc' = s.pc
    /\ click' = s.click
    /\ cont' = s.cont
    /\ off_now' = s.off_now
    /\ end_datetime' = s.end_datetime
    /\ total_time' = s.total_time
    /\ wire' = s.wire
    /\ sent' = s.sent
    /\ saved' = s.saved
    /\ clicks' = s.clicks
    /\ integral' = s.integral

\* The Session and Cell fields of a state
Core(s) ==
    [instrument_on |-> s.instrument_on, start_time |-> s.start_time,
     start_datetime |-> s.start_datetime, brightness_values |-> s.brightness_values,
     brightness_time_sum |-> s.brightness_time_sum,
     last_update_time |-> s.last_update_time]

(* A matrix is a list of rows, each a list of columns, as in the source;    *)
(* Python counts from 0, a sequence from 1.                                 *)
At(m, cell) == m[cell[1] + 1][cell[2] + 1]
Put(m, cell, x) == [m EXCEPT ![cell[1] + 1][cell[2] + 1] = x]
Matrix(F(_, _)) == [r \in 1..rows |-> [c \in 1..cols |-> F(r, c)]]

ZeroMatrix == Matrix(LAMBDA r, c : 0)
NoneMatrix == Matrix(LAMBDA r, c : None)

-----------------------------------------------------------------------------
(* send_matrix: the wire encoding *)

Digit(d) ==
    CASE d = 0 -> "0" [] d = 1 -> "1" [] d = 2 -> "2" [] d = 3 -> "3" [] d = 4 -> "4"
      [] d = 5 -> "5" [] d = 6 -> "6" [] d = 7 -> "7" [] d = 8 -> "8" [] d = 9 -> "9"

\* str(n) of a non-negative int: its decimal digits, as a sequence of characters
RECURSIVE str(_)
str(n) == IF n < 10 THEN <<Digit(n)>> ELSE str(n \div 10) \o <<Digit(n % 10)>>

\* str of every value a cell can take, worked out once
StrOf == [n \in 0..255 |-> str(n)]

\* for row in range(self.rows): parts.append(str(self.brightness_values[row][col]))
RECURSIVE RowLoop(_, _, _)
RowLoop(m, col, row) ==
    IF row >= rows THEN <<>>
    ELSE <<StrOf[m[row + 1][col + 1]]>> \o RowLoop(m, col, row + 1)

\* for col in range(self.cols): ...
RECURSIVE ColLoop(_, _)
ColLoop(m, col) ==
    IF col >= cols THEN <<>>
    ELSE RowLoop(m, col, 0) \o ColLoop(m, col + 1)

\* ",".join(parts): the parts with "," between neighbours (split in halves)
RECURSIVE join(_)
join(parts) ==
    IF Len(parts) = 0 THEN <<>>
    ELSE IF Len(parts) = 1 THEN parts[1]
    ELSE LET h == Len(parts) \div 2 IN
         join(SubSeq(parts, 1, h)) \o <<",">> \o join(SubSeq(parts, h + 1, Len(parts)))

\* Faulty variant: the values row by row
Transmission_row_major(m) ==
    <<"<">> \o join([k \in 1..(rows * cols) |->
                        StrOf[m[((k - 1) \div cols) + 1][((k - 1) % cols) + 1]]]) \o <<">">>

\* transmission = "<" + ",".join(parts) + ">"
Transmission(m) == <<"<">> \o join(ColLoop(m, 0)) \o <<">">>

\* transmission.encode(): the UTF-8 bytes of the (ASCII) characters
Ord(ch) ==
    CASE ch = "<" -> 60 [] ch = ">" -> 62 [] ch = "," -> 44
      [] ch = "0" -> 48 [] ch = "1" -> 49 [] ch = "2" -> 50 [] ch = "3" -> 51
      [] ch = "4" -> 52 [] ch = "5" -> 53 [] ch = "6" -> 54 [] ch = "7" -> 55
      [] ch = "8" -> 56 [] ch = "9" -> 57

encode(text) == [i \in 1..Len(text) |-> Ord(text[i])]

\* What a write that returns does with the bytes: returns, or raises
WriteOutcomes == {"ok", "raise"}

(* What a call of write may do: serial.Serial(port_name, 115200, timeout=1)  *)
(* sets the read timeout only, write_timeout stays None, so a write to a     *)
(* sink that takes no bytes does not return ("block").                       *)
WriteCalls == WriteOutcomes \cup {"block"}

\* Faulty variant: the port's is_open is not looked at before write()
send_matrix_no_open_check(s, w) ==
    LET transmission == Transmission(s.brightness_values)
        t == [s EXCEPT !.wire = transmission]
    IN
    IF s.simulation_mode
    THEN [t EXCEPT !.sent = Append(@, [result |-> "sim", data |-> <<>>])]
    ELSE IF w = "ok"
         THEN [t EXCEPT !.sent = Append(@, [result |-> "written",
                                            data |-> encode(transmission)])]
         ELSE IF w = "raise"
         THEN [t EXCEPT !.sent = Append(@, [result |-> "failed",
                                            data |-> encode(transmission)]),
                        !.pc = "serial_error_box"]
         ELSE [t EXCEPT !.sent = Append(@, [result |-> "blocked",
                                            data |-> encode(transmission)]),
                        !.pc = "write_blocked"]

(* send_matrix with the current matrix.  It records in sent what became   *)
(* of the frame: "sim" (printed only), "written", "failed" (write raised:   *)
(* the "Serial Error" box opens and the caller resumes when it is closed),  *)
(* "blocked" (write does not return: the handler, and with it the event     *)
(* loop that called it, stays in write()), "not_open" (reported, no write); *)
(* data is what write() was handed.                                         *)
send_matrix(s, w) ==
    LET transmission == Transmission(s.brightness_values)
        t == [s EXCEPT !.wire = transmission]
    IN
    IF s.simulation_mode
    THEN [t EXCEPT !.sent = Append(@, [result |-> "sim", data |-> <<>>])]
    ELSE IF s.is_open
    THEN IF w = "ok"
         THEN [t EXCEPT !.sent = Append(@, [result |-> "written",
                                            data |-> encode(transmission)])]
         ELSE IF w = "raise"
         THEN [t EXCEPT !.sent = Append(@, [result |-> "failed",
                                            data |-> encode(transmission)]),
                        !.pc = "serial_error_box"]
         ELSE [t EXCEPT !.sent = Append(@, [result |-> "blocked",
                                            data |-> encode(transmission)]),
                        !.pc = "write_blocked"]
    ELSE [t EXCEPT !.sent = Append(@, [result |-> "not_open", data |-> <<>>])]

-----------------------------------------------------------------------------
(* _calculate_average *)

\* A float is kept exact, as the fraction num / den
Float(x) == [num |-> x, den |-> 1]

\* Faulty variant: the partial interval is taken from the start of the session
calculate_average_partial_from_start(s, cell) ==
    IF s.start_time = None /\ ~s.instrument_on
    THEN Float(0)
    ELSE LET t == s.now
             total == IF s.start_time # None THEN t - Val(s.start_time) ELSE 0
         IN  IF total <= 0
             THEN Float(At(s.brightness_values, cell))
             ELSE LET accumulated == At(s.brightness_time_sum, cell)
                      current == At(s.brightness_values, cell)
                      partial == (t - Val(s.start_time)) * current
                  IN  [num |-> accumulated + partial, den |-> total]

\* Faulty variant: no return of 0.0 when there is no session
calculate_average_no_off_check(s, cell) ==
    LET t == s.now
        total == IF s.start_time # None THEN t - Val(s.start_time) ELSE 0
    IN  IF total <= 0
        THEN Float(At(s.brightness_values, cell))
        ELSE LET accumulated == At(s.brightness_time_sum, cell)
                 lut == At(s.last_update_time, cell)
                 current == At(s.brightness_values, cell)
                 partial == IF lut # None THEN (t - Val(lut)) * current ELSE 0
             IN  [num |-> accumulated + partial, den |-> total]

calculate_average(s, cell) ==
    IF s.start_time = None /\ ~s.instrument_on
    THEN Float(0)
    ELSE LET t == s.now
             total == IF s.start_time # None THEN t - Val(s.start_time) ELSE 0
         IN  IF total <= 0
             THEN Float(At(s.brightness_values, cell))
             ELSE LET accumulated == At(s.brightness_time_sum, cell)
                      lut == At(s.last_update_time, cell)
                      current == At(s.brightness_values, cell)
                      partial == IF lut # None THEN (t - Val(lut)) * current ELSE 0
                  IN  [num |-> accumulated + partial, den |-> total]

(* f"{avg:.2f}": the value in hundredths, rounded half to even (of the      *)
(* exact quotient; the float's own rounding error is not modelled)          *)
fmt2(a) ==
    LET q == (100 * a.num) \div a.den
        r == (100 * a.num) % a.den
    IN  IF 2 * r > a.den THEN q + 1
        ELSE IF 2 * r = a.den /\ q % 2 = 1 THEN q + 1
        ELSE q

-----------------------------------------------------------------------------
(* The handlers, as functions of the state *)

\* A step starts with nothing sent and nothing saved by it
Begin(s) == [s EXCEPT !.sent = <<>>, !.saved = None]

\* Faulty variant: the dialog accepts any byte
getInt_byte_range(typed, accept) ==
    [value |-> typed, ok |-> accept /\ typed >= 0 /\ typed <= 255]

(* QInputDialog.getInt(self, title, label, value, 0, 100, 1): typed is the  *)
(* value the user tries to enter and accept the press of OK.  The spin box  *)
(* holds only values of [min, max], so OK never returns another value.      *)
getInt(typed, accept) ==
    [value |-> typed,
     ok |-> accept /\ typed >= MinBrightness /\ typed <= MaxBrightness]

\* _on_button_click up to the dialog
click_open(s, cell) ==
    [Begin(s) EXCEPT !.pc = "input_dialog", !.click = Some(cell), !.clicks = @ + 1]

\* lut = self.last_update_time[row][col]; if lut is not None: dt = now - lut; if dt > 0: ...
click_accumulate(sum, old_val, lut, t) ==
    IF lut # None /\ t - Val(lut) > 0 THEN sum + old_val * (t - Val(lut)) ELSE sum

\* Faulty variant: the edit while off also stamps the cell's last_update_time
click_off_stamps(s, cell, value) ==
    [s EXCEPT !.brightness_values = Put(@, cell, value),
              !.last_update_time = Put(@, cell, Some(s.now))]

\* Faulty variant: the edit while off sends the staged matrix
click_off_sends(s, cell, value) ==
    [send_matrix([s EXCEPT !.brightness_values = Put(@, cell, value)], "ok")
     EXCEPT !.pc = s.pc]

\* Pre-ON: only update local matrix, no averaging, no sending
click_off(s, cell, value) == [s EXCEPT !.brightness_values = Put(@, cell, value)]

\* _on_button_click from the return of the dialog
click_done(s, typed, accept, w) ==
    LET cell == Val(s.click)
        d == getInt(typed, accept)
        s0 == [Begin(s) EXCEPT !.pc = "idle", !.click = None]
    IN  IF ~d.ok THEN s0
        ELSE LET old_val == At(s.brightness_values, cell)
                 t == s.now
             IN  IF s.instrument_on
                 THEN LET s1 == [s0 EXCEPT
                                   !.brightness_time_sum =
                                       Put(@, cell, click_accumulate(At(@, cell), old_val,
                                                        At(s.last_update_time, cell), t)),
                                   !.last_update_time = Put(@, cell, Some(t)),
                                   !.brightness_values = Put(@, cell, d.value)]
                          s2 == send_matrix(s1, w)
                      IN  IF s2.pc \in {"serial_error_box", "write_blocked"}
                          THEN [s2 EXCEPT !.cont = "click"] ELSE s2
                 ELSE click_off(s0, cell, d.value)

\* Faulty variant: the time-sums of the session before are kept
turn_on_keeps_sums(s, w) ==
    LET t == s.now
        s1 == [Begin(s) EXCEPT
                 !.instrument_on = TRUE,
                 !.start_time = Some(t),
                 !.start_datetime = Some(t),
                 !.last_update_time = Matrix(LAMBDA r, c : Some(t)),
                 !.integral = ZeroMatrix]
        s2 == send_matrix(s1, w)
    IN  IF s2.pc \in {"serial_error_box", "write_blocked"}
        THEN [s2 EXCEPT !.cont = "turn_on"] ELSE s2

turn_on(s, w) ==
    LET t == s.now
        s1 == [Begin(s) EXCEPT
                 !.instrument_on = TRUE,
                 !.start_time = Some(t),
                 !.start_datetime = Some(t),
                 !.brightness_time_sum = ZeroMatrix,
                 !.last_update_time = Matrix(LAMBDA r, c : Some(t)),
                 !.integral = ZeroMatrix]
        s2 == send_matrix(s1, w)
    IN  IF s2.pc \in {"serial_error_box", "write_blocked"}
        THEN [s2 EXCEPT !.cont = "turn_on"] ELSE s2

\* save_session_data up to the file dialog of ask_save_file
save_open(s) ==
    [s EXCEPT !.end_datetime = Some(s.now),
              !.total_time = IF s.start_datetime # None
                             THEN Some(s.now - Val(s.start_datetime)) ELSE Some(0),
              !.pc = "save_dialog"]

\* Faulty variant: the cells' last_update_time is not cleared
clear_session_keeps_stamps(s) ==
    [s EXCEPT !.instrument_on = FALSE,
              !.start_time = None,
              !.start_datetime = None,
              !.pc = "idle", !.cont = "",
              !.off_now = None, !.end_datetime = None, !.total_time = None]

\* the end of _turn_off: clear session timing state
clear_session(s) ==
    [s EXCEPT !.instrument_on = FALSE,
              !.start_time = None,
              !.start_datetime = None,
              !.last_update_time = NoneMatrix,
              !.pc = "idle", !.cont = "",
              !.off_now = None, !.end_datetime = None, !.total_time = None]

\* Faulty variant: the final period is dropped
turn_off_accumulate_dropped(sum, value, lut, t) == sum

\* the final period of one cell in _turn_off
turn_off_accumulate(sum, value, lut, t) ==
    IF lut # None /\ t - Val(lut) > 0 THEN sum + value * (t - Val(lut)) ELSE sum

\* Faulty variant: the matrix is sent and not zeroed
zero_and_send_keeps_matrix(s, w) == send_matrix(s, w)

\* Faulty variant: the matrix is sent before it is zeroed
zero_and_send_swapped(s, w) ==
    [send_matrix(s, w) EXCEPT !.brightness_values = ZeroMatrix]

\* self.brightness_values = [[0 ...]]; self.send_matrix()
zero_and_send(s, w) == send_matrix([s EXCEPT !.brightness_values = ZeroMatrix], w)

\* _turn_off of a running session, up to the first dialog it opens
turn_off_session(s, w) ==
    LET t == s.now
        s1 == [Begin(s) EXCEPT
                 !.off_now = Some(t),
                 !.brightness_time_sum =
                     Matrix(LAMBDA r, c :
                         turn_off_accumulate(s.brightness_time_sum[r][c],
                             s.brightness_values[r][c], s.last_update_time[r][c], t))]
        s2 == zero_and_send(s1, w)
    IN  IF s2.pc \in {"serial_error_box", "write_blocked"}
        THEN [s2 EXCEPT !.cont = "turn_off"]
        ELSE save_open(s2)

\* Faulty variant: no check of instrument_on
turn_off_unguarded(s, w) == turn_off_session(s, w)

\* _turn_off: if not self.instrument_on: return
turn_off(s, w) ==
    IF ~s.instrument_on THEN Begin(s) ELSE turn_off_session(s, w)

toggle_instrument(s, w) ==
    IF ~s.instrument_on THEN turn_on(s, w) ELSE turn_off(s, w)

\* the "Serial Error" box is closed: send_matrix returns to its caller
serial_error_closed(s) ==
    IF s.cont = "turn_off"
    THEN save_open([Begin(s) EXCEPT !.cont = ""])
    ELSE [Begin(s) EXCEPT !.pc = "idle", !.cont = ""]

(* save_session_data from the return of ask_save_file (a cancelled dialog   *)
(* falls back to instrument_log.txt).  io = "raise": open or write raises,  *)
(* _turn_off reports it in the "Save Error" box.                            *)
save_done(s, io) ==
    IF io = "raise"
    THEN [Begin(s) EXCEPT !.pc = "save_error_box",
                          !.end_datetime = None, !.total_time = None]
    ELSE clear_session(
           [Begin(s) EXCEPT
              !.saved = Some([start |-> s.start_datetime,
                              end |-> s.end_datetime,
                              total |-> Val(s.total_time),
                              avg |-> Matrix(LAMBDA r, c :
                                         fmt2(calculate_average(s, <<r - 1, c - 1>>)))])])

\* Faulty variant: the failed save leaves _turn_off before the session is cleared
save_error_closed_no_clear(s) == [Begin(s) EXCEPT !.pc = "idle"]

\* the "Save Error" box is closed
save_error_closed(s) == clear_session(Begin(s))

\* Faulty variant: the tick accumulates and leaves last_update_time behind
tick_cell_stale(sum, value, lut, t) ==
    IF lut # None /\ t - Val(lut) > 0
    THEN <<sum + value * (t - Val(lut)), lut>>
    ELSE <<sum, lut>>

\* Faulty variant: the tick moves last_update_time and adds nothing
tick_cell_drops(sum, value, lut, t) ==
    IF lut # None /\ t - Val(lut) > 0 THEN <<sum, Some(t)>> ELSE <<sum, lut>>

\* one cell of _timer_tick: <<brightness_time_sum, last_update_time>>
tick_cell(sum, value, lut, t) ==
    IF lut # None /\ t - Val(lut) > 0
    THEN <<sum + value * (t - Val(lut)), Some(t)>>
    ELSE <<sum, lut>>

\* Faulty variant: the tick also sends the matrix
timer_tick_sends(s) ==
    IF ~s.instrument_on \/ s.start_time = None THEN Begin(s)
    ELSE LET t == s.now
             f(r, c) == tick_cell(s.brightness_time_sum[r][c], s.brightness_values[r][c],
                                  s.last_update_time[r][c], t)
         IN  [send_matrix(
                [Begin(s) EXCEPT
                   !.brightness_time_sum = Matrix(LAMBDA r, c : f(r, c)[1]),
                   !.last_update_time = Matrix(LAMBDA r, c : f(r, c)[2])], "ok")
              EXCEPT !.pc = s.pc]

timer_tick(s) ==
    IF ~s.instrument_on \/ s.start_time = None THEN Begin(s)
    ELSE LET t == s.now
             f(r, c) == tick_cell(s.brightness_time_sum[r][c], s.brightness_values[r][c],
                                  s.last_update_time[r][c], t)
         IN  [Begin(s) EXCEPT
                !.brightness_time_sum = Matrix(LAMBDA r, c : f(r, c)[1]),
                !.last_update_time = Matrix(LAMBDA r, c : f(r, c)[2])]

-----------------------------------------------------------------------------
(* The state after construction: connect_serial returned with a FakeSerial  *)
(* (simulation) or an open serial.Serial, and __init__ sent the zero matrix *)

InitState(sim, w) ==
    send_matrix(
      [instrument_on |-> FALSE, start_time |-> None, start_datetime |-> None,
       brightness_values |-> ZeroMatrix, brightness_time_sum |-> ZeroMatrix,
       last_update_time |-> NoneMatrix, simulation_mode |-> sim, is_open |-> TRUE,
       now |-> 0, pc |-> "idle", click |-> None, cont |-> "",
       off_now |-> None, end_datetime |-> None, total_time |-> None,
       wire |-> <<>>, sent |-> <<>>,
       saved |-> None, clicks |-> 0, integral |-> ZeroMatrix], w)

Init ==
    \E sim \in BOOLEAN, w \in WriteCalls :
        LET s0 == InitState(sim, w)
            s == IF s0.pc = "write_blocked" THEN s0 ELSE [s0 EXCEPT !.pc = "idle"]
        IN
        /\ instrument_on = s.instrument_on
        /\ start_time = s.start_time
        /\ start_datetime = s.start_datetime
        /\ brightness_values = s.brightness_values
        /\ brightness_time_sum = s.brightness_time_sum
        /\ last_update_time = s.last_update_time
        /\ simulation_mode = s.simulation_mode
        /\ is_open = s.is_open
        /\ now = s.now
        /\ pc = s.pc
        /\ click = s.click
        /\ cont = s.cont
        /\ off_now = s.off_now
        /\ end_datetime = s.end_datetime
        /\ total_time = s.total_time
        /\ wire = s.wire
        /\ sent = s.sent
        /\ saved = s.saved
        /\ clicks = s.clicks
        /\ integral = s.integral

\* What the user does with the brightness dialog: OK on a typed value, or Cancel
DialogInputs ==
    {[typed |-> v, accept |-> TRUE] : v \in TypedValues}
        \cup {[typed |-> 0, accept |-> FALSE]}

\* What write() may do where send_matrix would call it
Writes == IF simulation_mode \/ ~is_open THEN {"ok"} ELSE WriteCalls

\* a grid button is clicked
Click ==
    /\ pc = "idle"
    /\ clicks < MaxClicks
    /\ \E cell \in EditCells : Apply(click_open(Cur, cell))

\* the brightness dialog returns
ClickDone ==
    /\ pc = "input_dialog"
    /\ \E d \in DialogInputs, w \in Writes :
          Apply(click_done(Cur, d.typed, d.accept, w))

\* the ON/OFF button is clicked
Toggle ==
    /\ pc = "idle"
    /\ \E w \in Writes : Apply(toggle_instrument(Cur, w))

\* _turn_off is called while the instrument is off
TurnOffWhileOff ==
    /\ pc = "idle"
    /\ ~instrument_on
    /\ \E w \in Writes : Apply(turn_off(Cur, w))

SerialErrorClosed ==
    /\ pc = "serial_error_box"
    /\ Apply(serial_error_closed(Cur))

SaveDone ==
    /\ pc = "save_dialog"
    /\ \E io \in {"ok", "raise"} : Apply(save_done(Cur, io))

SaveErrorClosed ==
    /\ pc = "save_error_box"
    /\ Apply(save_error_closed(Cur))

(* the QTimer fires: in the main event loop and in that of any modal dialog, *)
(* not while a handler is in a call that does not return to the loop        *)
Tick ==
    /\ pc # "write_blocked"
    /\ Apply(timer_tick(Cur))

\* the serial port is closed (is_open is read only outside simulation mode)
close(s) == [Begin(s) EXCEPT !.is_open = FALSE]

(* (a port that closes under a pending write makes the write raise: that is *)
(* the outcome "raise", not a step of its own)                              *)
Close ==
    /\ pc # "write_blocked"
    /\ ~simulation_mode
    /\ is_open
    /\ Apply(close(Cur))

\* one unit of time passes; the session's integral grows by each cell's brightness
Advance ==
    /\ now < MaxTime
    /\ now' = now + 1
    /\ integral' = IF instrument_on
                   THEN Matrix(LAMBDA r, c : integral[r][c] + brightness_values[r][c])
                   ELSE integral
    /\ sent' = <<>>
    /\ saved' = None
    /\ UNCHANGED <<instrument_on, start_time, start_datetime, brightness_values,
                   brightness_time_sum, last_update_time, simulation_mode, is_open,
                   pc, click, cont, off_now, end_datetime, total_time, wire, clicks>>

Next ==
    \/ Click
    \/ ClickDone
    \/ Toggle
    \/ TurnOffWhileOff
    \/ SerialErrorClosed
    \/ SaveDone
    \/ SaveErrorClosed
    \/ Tick
    \/ Close
    \/ Advance

Spec == Init /\ [][Next]_vars

-----------------------------------------------------------------------------
(* Reading a frame back *)

\* the fields of text[lo..hi], "," separating them
RECURSIVE Fields(_, _, _)
Fields(text, lo, hi) ==
    IF lo = hi
    THEN IF text[lo] = "," THEN << <<>>, <<>> >> ELSE << <<text[lo]>> >>
    ELSE LET mid == (lo + hi) \div 2
             a == Fields(text, lo, mid)
             b == Fields(text, mid + 1, hi)
         IN  SubSeq(a, 1, Len(a) - 1) \o <<a[Len(a)] \o b[1]>> \o Tail(b)

IsDigit(ch) == ch \in {"0", "1", "2", "3", "4", "5", "6", "7", "8", "9"}
DigitVal(ch) == Ord(ch) - 48

\* a decimal field: digits only, at least one
IsDecimal(f) == Len(f) >= 1 /\ \A i \in 1..Len(f) : IsDigit(f[i])

RECURSIVE IntOf(_)
IntOf(f) ==
    IF Len(f) = 1 THEN DigitVal(f[1])
    ELSE 10 * IntOf(SubSeq(f, 1, Len(f) - 1)) + DigitVal(f[Len(f)])

\* '<' fields '>'
Framed(text) == Len(text) >= 3 /\ text[1] = "<" /\ text[Len(text)] = ">"
Payload(text) == Fields(text, 2, Len(text) - 1)

\* the frame holds 96 decimal values and the value at position 8*c + r is m[r, c]
DecodesTo(text, m) ==
    /\ Framed(text)
    /\ LET f == Payload(text) IN
       /\ Len(f) = rows * cols
       /\ \A k \in 1..Len(f) : IsDecimal(f[k])
       /\ \A cell \in Cells : IntOf(f[rows * cell[2] + cell[1] + 1]) = At(m, cell)

\* '<', 95 times "0,", "0", '>'
ZeroFrame ==
    <<"<">> \o [i \in 1..(2 * (rows * cols - 1)) |-> IF i % 2 = 1 THEN "0" ELSE ","]
            \o <<"0">> \o <<">">>

\* two averages are the same number
SameNumber(a, b) == a.num * b.den = b.num * a.den

\* a session is running and has lasted
Lasting(s) == s.instrument_on /\ s.start_time # None /\ s.now > Val(s.start_time)

\* the state a handler leaves once a "Serial Error" box it opened is closed
Resumed(s) == IF s.pc = "serial_error_box" THEN serial_error_closed(s) ELSE s

\* what of a state the outcome of a write may not change
Position(s) ==
    [core |-> Core(s), pc |-> s.pc, click |-> s.click, off_now |-> s.off_now,
     end_datetime |-> s.end_datetime, total_time |-> s.total_time, wire |-> s.wire]

\* the instrument is off, as _turn_off leaves it
OffState(s) ==
    /\ ~s.instrument_on
    /\ s.start_time = None
    /\ s.start_datetime = None
    /\ s.last_update_time = NoneMatrix
    /\ s.brightness_values = ZeroMatrix
    /\ s.pc = "idle"

-----------------------------------------------------------------------------
(* Properties *)

(* C1: while a session is on, at any instant after its start, the average  *)
(* of every cell is the time integral of the cell's brightness since the    *)
(* start divided by the time since the start.                               *)
C1_AverageIsTimeIntegral ==
    Lasting(Cur) =>
        \A cell \in Cells :
            SameNumber(calculate_average(Cur, cell),
                       [num |-> At(integral, cell), den |-> now - Val(start_time)])

\* C1 witness: an edited cell, ticked, with an open interval at a brightness it did not start with
C1_Witness ==
    /\ Lasting(Cur)
    /\ pc = "idle"
    /\ \E cell \in EditCells :
          /\ At(brightness_time_sum, cell) > 0
          /\ At(brightness_values, cell) > 0
          /\ Val(At(last_update_time, cell)) < now
          /\ At(integral, cell) # At(brightness_values, cell) * (now - Val(start_time))

(* C2: the average the summary holds for a cell is the time integral of its *)
(* brightness over [startedAt, T] divided by T - startedAt, T the instant   *)
(* of TurnOff, whenever the save dialog returns.                            *)
C2_CloseAverageIsSessionIntegral ==
    (pc = "save_dialog" /\ Val(off_now) > Val(start_time)) =>
        \A cell \in Cells :
            At(Val(save_done(Cur, "ok").saved).avg, cell)
                = fmt2([num |-> At(integral, cell), den |-> Val(off_now) - Val(start_time)])

(* C3: TurnOn and TurnOff at the same instant: the summary holds for every  *)
(* cell the brightness the cell held in the session.                        *)
C3_InstantSessionReportsHeld ==
    (pc = "idle" /\ instrument_on /\ now = Val(start_time)) =>
        \A cell \in Cells :
            LET closing == Resumed(toggle_instrument(Cur, "ok")) IN
            At(Val(save_done(closing, "ok").saved).avg, cell)
                = fmt2(Float(At(brightness_values, cell)))

(* C4: an edit while the session is off changes the brightness of the       *)
(* edited cell and nothing else of the cells and the session, and sends     *)
(* nothing.                                                                 *)
C4_EditWhileOffFrame ==
    /\ (pc = "idle" /\ ~instrument_on) =>
          \A cell \in EditCells :
              LET r == click_open(Cur, cell) IN
              Core(r) = Core(Cur) /\ r.sent = <<>> /\ r.wire = wire
    /\ (pc = "input_dialog" /\ ~instrument_on) =>
          \A d \in DialogInputs, w \in WriteOutcomes :
              LET r == click_done(Cur, d.typed, d.accept, w) IN
              /\ r.brightness_time_sum = brightness_time_sum
              /\ r.last_update_time = last_update_time
              /\ \A cell \in Cells \ {Val(click)} :
                    At(r.brightness_values, cell) = At(brightness_values, cell)
              /\ At(r.brightness_values, Val(click))
                    = IF getInt(d.typed, d.accept).ok THEN d.typed
                      ELSE At(brightness_values, Val(click))
              /\ r.instrument_on = instrument_on
              /\ r.start_time = start_time
              /\ r.start_datetime = start_datetime
              /\ r.sent = <<>>
              /\ r.wire = wire

\* C4 witness: a value staged while off, after a session that left its sums behind
C4_Witness ==
    /\ ~instrument_on
    /\ pc = "idle"
    /\ \E cell \in EditCells :
          At(brightness_values, cell) > 0 /\ At(brightness_time_sum, cell) > 0

(* C5: _turn_off while the instrument is off changes nothing, sends nothing *)
(* and saves nothing.                                                       *)
C5_TurnOffWhileOffIsNoOp ==
    (pc = "idle" /\ ~instrument_on) =>
        \A w \in WriteOutcomes :
            LET r == turn_off(Cur, w) IN
            /\ Core(r) = Core(Cur)
            /\ r.pc = "idle"
            /\ r.wire = wire
            /\ r.sent = <<>>
            /\ r.saved = None
            /\ turn_off(r, w) = r

\* C5 witness: off, with a value staged that a turn-off would zero
C5_Witness ==
    /\ ~instrument_on
    /\ pc = "idle"
    /\ sent = <<>>
    /\ \E cell \in EditCells : At(brightness_values, cell) > 0

(* C6: a frame that is sent is '<', 96 decimal values separated by ',',     *)
(* '>', the value at position 8*c + r being brightness(r, c); the bytes     *)
(* written are its characters; the frame of the zero matrix is '<', 95      *)
(* times "0,", "0", '>'.                                                    *)
C6_FrameIsColumnMajor ==
    sent # <<>> =>
        /\ DecodesTo(wire, brightness_values)
        /\ \A i \in 1..Len(sent) :
              sent[i].result \in {"written", "failed", "blocked"}
                  => sent[i].data = encode(wire)
        /\ brightness_values = ZeroMatrix => wire = ZeroFrame

\* C6 witness: a frame with two different values in it
C6_Witness ==
    /\ sent # <<>>
    /\ At(brightness_values, <<3, 5>>) = 30
    /\ At(brightness_values, <<7, 11>>) = 100

(* C7: while _turn_off attempts persistence (the save dialog, the write of  *)
(* the summary, the report of its failure) the frame attempted last is the  *)
(* all-zero frame.                                                          *)
C7_ZeroFrameBeforePersistence ==
    (pc \in {"save_dialog", "save_error_box"} \/ saved # None) => wire = ZeroFrame

\* C7 witness: persistence is attempted for a session in which a cell was lit
C7_Witness ==
    /\ pc = "save_dialog"
    /\ \E cell \in EditCells : At(brightness_time_sum, cell) > 0

(* C8: a _turn_off of a running session ends with the instrument off,       *)
(* start_time and start_datetime None, every last_update_time None and      *)
(* every brightness 0, whether the save succeeds or raises.                 *)
C8_TurnOffCompletes ==
    [](/\ (pc = "idle" /\ instrument_on) =>
             \A w \in WriteOutcomes :
                 Resumed(toggle_instrument(Cur, w)).pc = "save_dialog"
       /\ pc = "save_dialog" =>
             /\ OffState(save_done(Cur, "ok"))
             /\ OffState(save_error_closed(save_done(Cur, "raise")))
       /\ pc = "save_error_box" => OffState(save_error_closed(Cur))
       /\ (pc = "idle" /\ ~instrument_on) =>
             start_time = None /\ start_datetime = None /\ last_update_time = NoneMatrix)

\* C8 witness: the save of a session in which a cell was lit has failed
C8_Witness ==
    /\ pc = "save_error_box"
    /\ \E cell \in EditCells : At(brightness_time_sum, cell) > 0

(* C9: what an edit while on, a turn-on and a turn-off leave of the session *)
(* and the cells is the same whether the write succeeds or raises, and      *)
(* write() is called only on an open port.                                  *)
C9_FailedWriteLeavesCore ==
    [](/\ (pc = "input_dialog" /\ instrument_on /\ Writes = WriteCalls) =>
             \A d \in DialogInputs :
                 Position(Resumed(click_done(Cur, d.typed, d.accept, "raise")))
                     = Position(click_done(Cur, d.typed, d.accept, "ok"))
       /\ (pc = "idle" /\ Writes = WriteCalls) =>
             Position(Resumed(toggle_instrument(Cur, "raise")))
                 = Position(toggle_instrument(Cur, "ok"))
       /\ \A i \in 1..Len(sent) :
             /\ sent[i].result \in {"written", "failed", "blocked"}
                   => is_open /\ ~simulation_mode
             /\ sent[i].result \notin {"written", "failed", "blocked"} => sent[i].data = <<>>)

\* C9 witness: the write of an edit in a session has raised
C9_Witness ==
    /\ pc = "serial_error_box"
    /\ cont = "click"
    /\ sent # <<>>
    /\ sent[1].result = "failed"

(* C10: a value outside [0, 100] leaves the matrix as it is and sends       *)
(* nothing; every brightness is an integer of [0, 100].                     *)
C10_BrightnessInRange ==
    [](/\ \A cell \in Cells : At(brightness_values, cell) \in 0..100
       /\ pc = "input_dialog" =>
             \A typed \in {v \in TypedValues : v < 0 \/ v > 100}, w \in WriteOutcomes :
                 LET r == click_done(Cur, typed, TRUE, w) IN
                 /\ r.brightness_values = brightness_values
                 /\ r.sent = <<>>
                 /\ r.wire = wire)

\* C10 witness: the dialog of a cell at the upper end of the range, in a session
C10_Witness ==
    /\ pc = "input_dialog"
    /\ instrument_on
    /\ At(brightness_values, Val(click)) = 100
    /\ \E v \in TypedValues : v > 100

(* C11: a turn-on while off sets start_time to now, every time-sum to 0 and  *)
(* every last_update_time to now, keeps every brightness, and attempts one  *)
(* frame, which encodes that matrix; what it leaves does not depend on the  *)
(* time-sums an earlier session left.                                       *)
C11_TurnOnStartsFresh ==
    []((pc = "idle" /\ ~instrument_on) =>
           LET blank == [Cur EXCEPT !.brightness_time_sum = ZeroMatrix] IN
           \A w \in Writes :
               LET r == toggle_instrument(Cur, w) IN
               /\ r.instrument_on
               /\ r.start_time = Some(now)
               /\ r.start_datetime = Some(now)
               /\ r.brightness_time_sum = ZeroMatrix
               /\ r.last_update_time = Matrix(LAMBDA i, j : Some(now))
               /\ r.brightness_values = brightness_values
               /\ Len(r.sent) = 1
               /\ DecodesTo(r.wire, brightness_values)
               /\ Core(turn_on(blank, w)) = Core(r))

\* C11 witness: off after a session that left a time-sum, with a value staged for the next
C11_Witness ==
    /\ ~instrument_on
    /\ pc = "idle"
    /\ now > 0
    /\ \E cell \in EditCells : At(brightness_time_sum, cell) > 0
    /\ \E cell \in EditCells : At(brightness_values, cell) = 100

\* what __init__ sends, for every kind of port and outcome of the write
InitialFrames == {InitState(sim, w).sent : sim \in BOOLEAN, w \in WriteCalls}

\* a step in which an edit while on, a turn-on or a turn-off sends its frame
TriggerStep ==
    \/ pc = "input_dialog" /\ instrument_on /\ click' = None
    \/ pc = "idle" /\ ~instrument_on /\ instrument_on'
    \/ pc = "idle" /\ instrument_on /\ off_now = None /\ off_now' # None

(* C12: one frame is attempted by the start-up, by an edit while on, by a   *)
(* turn-on and by a turn-off, and none by anything else: a step attempts a  *)
(* frame only if it is one of those three, and then one frame; a tick, an   *)
(* edit while off or a cancelled or refused edit, the closing of the        *)
(* "Serial Error" box of a failed frame, and the save attempt none.         *)
C12_OneAttemptPerTrigger ==
    /\ [](/\ Len(sent) <= 1
          /\ \A frames \in InitialFrames : Len(frames) = 1
          /\ LET r == timer_tick(Cur) IN r.sent = <<>> /\ r.wire = wire
          /\ pc = "idle" =>
                /\ \A w \in Writes : Len(toggle_instrument(Cur, w).sent) = 1
                /\ \A cell \in EditCells : click_open(Cur, cell).sent = <<>>
          /\ pc = "input_dialog" =>
                \A d \in DialogInputs, w \in Writes :
                    Len(click_done(Cur, d.typed, d.accept, w).sent)
                        = IF instrument_on /\ getInt(d.typed, d.accept).ok THEN 1 ELSE 0
          /\ pc = "serial_error_box" =>
                LET r == serial_error_closed(Cur) IN r.sent = <<>> /\ r.wire = wire
          /\ pc = "save_dialog" =>
                \A io \in {"ok", "raise"} :
                    LET r == save_done(Cur, io) IN r.sent = <<>> /\ r.wire = wire
          /\ pc = "save_error_box" =>
                LET r == save_error_closed(Cur) IN r.sent = <<>> /\ r.wire = wire)
    /\ [][/\ sent' # <<>> => TriggerStep
          /\ wire' # wire => sent' # <<>>]_vars

\* C12 witness: the frame of a turn-on has failed and its "Serial Error" box is open
C12_Witness ==
    /\ pc = "serial_error_box"
    /\ cont = "turn_on"
    /\ Len(sent) = 1
    /\ sent[1].result = "failed"
    /\ \E cell \in EditCells : At(brightness_values, cell) > 0

(* C13: a write that does not return does not stall the tick and edit path: *)
(* while a handler is in such a write, the timer's tick can still be        *)
(* processed, and so can the return of an edit's dialog or a new click.     *)
C13_HungWriteDoesNotStall ==
    (pc = "write_blocked" /\ cont \in {"click", "turn_on", "turn_off"}) =>
        (ENABLED Tick) /\ (ENABLED Click \/ ENABLED ClickDone)

(* C14 as stated: while a session is active, the closing phase of _turn_off *)
(* included, the time-sum of a cell is the integral of its brightness over  *)
(* [start_time, last_update_time].  Up to the turn-off the brightness has   *)
(* been the same since last_update_time, so that integral is the session's  *)
(* integral less brightness * (now - last_update_time); _turn_off leaves    *)
(* last_update_time where it was.                                           *)
C14_SumIsIntegralToLastUpdate ==
    /\ (instrument_on /\ off_now = None) =>
          \A cell \in Cells :
              At(brightness_time_sum, cell)
                  = At(integral, cell)
                      - At(brightness_values, cell) * (now - Val(At(last_update_time, cell)))
    /\ (instrument_on /\ pc = "idle") =>
          LET closing == turn_off(Cur, "ok") IN
          \A cell \in Cells :
              At(closing.brightness_time_sum, cell)
                  = At(integral, cell)
                      - At(brightness_values, cell)
                          * (now - Val(At(closing.last_update_time, cell)))

\* time-sum + brightness * (now - last_update_time) of every cell, in a session
OpenSum(s) ==
    Matrix(LAMBDA i, j : s.brightness_time_sum[i][j]
                + s.brightness_values[i][j] * (s.now - Val(s.last_update_time[i][j])))

(* C14 amended: while a session is active, the closing phase included, the  *)
(* time-sum of a cell plus its brightness times (now - last_update_time) is *)
(* the integral of the brightness the cell held over [start_time, now]; the *)
(* pass of _turn_off adds the open interval once: it leaves the integral    *)
(* over the whole session in the time-sum.                                  *)
C14_SumPlusOpenIntervalIsIntegral ==
    [](/\ instrument_on => OpenSum(Cur) = integral
       /\ (instrument_on /\ pc = "idle") =>
             \A w \in Writes : turn_off(Cur, w).brightness_time_sum = integral)

\* C14 witness: the closing pass has added an open interval and left last_update_time behind
C14_Witness ==
    /\ instrument_on
    /\ pc = "save_dialog"
    /\ \E cell \in EditCells :
          /\ At(brightness_time_sum, cell) > 0
          /\ Val(At(last_update_time, cell)) < Val(off_now)
          /\ Val(At(last_update_time, cell)) > Val(start_time)

(* C15: wherever the event loop can start a handler, the instrument is off  *)
(* iff start_time is None iff every last_update_time is None, and while it  *)
(* is on every cell has a last_update_time, between start_time and now.     *)
C15_SessionFieldsAgree ==
    pc # "write_blocked" =>
        /\ ~instrument_on <=> start_time = None
        /\ ~instrument_on <=> (\A cell \in Cells : At(last_update_time, cell) = None)
        /\ instrument_on =>
              \A cell \in Cells :
                  /\ At(last_update_time, cell) # None
                  /\ Val(start_time) <= Val(At(last_update_time, cell))
                  /\ Val(At(last_update_time, cell)) <= now

\* C15 witness: on, one cell accounted up to now, another not since the start
C15_Witness ==
    /\ instrument_on
    /\ pc = "idle"
    /\ \E a \in Cells, b \in Cells :
          /\ Val(At(last_update_time, a)) = now
          /\ Val(At(last_update_time, b)) = Val(start_time)
          /\ Val(start_time) < now

\* the average of every cell
Averages(s) == Matrix(LAMBDA i, j : calculate_average(s, <<i - 1, j - 1>>))

(* C16: a tick while on keeps every brightness and the session fields,      *)
(* keeps time-sum + brightness * (now - last_update_time) of every cell,    *)
(* leaves every last_update_time at now and every average as it was (a tick *)
(* that changes no field changes no average); a tick while off changes      *)
(* nothing of the cells and the session.                                    *)
C16_TickFrame ==
    [](LET r == timer_tick(Cur) IN
       /\ r.brightness_values = brightness_values
       /\ r.instrument_on = instrument_on
       /\ r.start_time = start_time
       /\ r.start_datetime = start_datetime
       /\ r.now = now
       /\ ~instrument_on => Core(r) = Core(Cur)
       /\ instrument_on =>
             /\ r.last_update_time = Matrix(LAMBDA i, j : Some(now))
             /\ r.brightness_time_sum = OpenSum(Cur)
             /\ OpenSum(r) = OpenSum(Cur)
             /\ Core(r) = Core(Cur) \/ Averages(r) = Averages(Cur))

\* C16 witness: a tick is due in a session, for a lit cell with an open interval
C16_Witness ==
    /\ Lasting(Cur)
    /\ pc = "input_dialog"
    /\ \E cell \in EditCells :
          /\ At(brightness_values, cell) > 0
          /\ Val(At(last_update_time, cell)) < now
          /\ At(brightness_time_sum, cell) > 0

(* C17: while the instrument is off, before the first session and after    *)
(* every _turn_off that has run to its end, start_time is None and the      *)
(* average of every cell is 0.0, whatever is staged in the matrix and       *)
(* whatever an earlier session left in the time-sums.                       *)
C17_AverageIsZeroWhileOff ==
    /\ ~instrument_on =>
          /\ start_time = None
          /\ \A cell \in Cells : calculate_average(Cur, cell) = Float(0)
    /\ pc = "save_dialog" =>
          LET written == save_done(Cur, "ok")
              failed == save_error_closed(save_done(Cur, "raise"))
          IN  \A cell \in Cells :
                  /\ calculate_average(written, cell) = Float(0)
                  /\ calculate_average(failed, cell) = Float(0)

\* C17 witness: off after a session, a cell with a time-sum left and a value staged
C17_Witness ==
    /\ ~instrument_on
    /\ start_time = None
    /\ now > 0
    /\ \E cell \in EditCells :
          At(brightness_values, cell) = 30 /\ At(brightness_time_sum, cell) >= 30

(* C18: while the instrument is on and no handler is under way, the frame   *)
(* attempted last encodes the matrix as it is; while the instrument is off, *)
(* at start-up and with values staged included, the frame attempted last is *)
(* the all-zero frame.                                                      *)
C18_LastFrameMatchesMatrix ==
    [](/\ (instrument_on /\ pc = "idle") =>
             wire = Transmission(brightness_values) /\ DecodesTo(wire, brightness_values)
       /\ ~instrument_on => wire = ZeroFrame)

\* C18 witness: off, nothing under way, two different values staged
C18_Witness ==
    /\ ~instrument_on
    /\ pc = "idle"
    /\ sent = <<>>
    /\ At(brightness_values, <<3, 5>>) = 100
    /\ At(brightness_values, <<7, 11>>) = 30

(* C19: a tick between the closing pass of _turn_off and the clearing of    *)
(* the session (the instrument still on, a dialog of _turn_off open) adds   *)
(* nothing to any time-sum, and the summary the save writes is the same     *)
(* with the tick and without it.                                            *)
C19_TickInTurnOffAddsNothing ==
    (instrument_on /\ off_now # None) =>
        LET r == timer_tick(Cur) IN
        /\ r.brightness_time_sum = brightness_time_sum
        /\ r.brightness_values = brightness_values
        /\ pc = "save_dialog" =>
              save_done(r, "ok").saved = save_done(Cur, "ok").saved

\* C19 witness: the save dialog is open, time has passed and a tick has work to do
C19_Witness ==
    /\ instrument_on
    /\ pc = "save_dialog"
    /\ now > Val(off_now)
    /\ \E cell \in EditCells :
          At(brightness_time_sum, cell) > 0 /\ Val(At(last_update_time, cell)) < now

\* every entry of matrix a is at least that of matrix b
Geq(a, b) == \A i \in 1..rows : \A j \in 1..cols : a[i][j] >= b[i][j]

(* C20: every time-sum is >= 0 and no step lowers one within a session; the *)
(* average of every cell lies in [0, 100] at every instant, the closing     *)
(* save included: time-sum + brightness * (now - last_update_time) is at    *)
(* most 100 * (now - start_time).                                           *)
C20_SumsAndAveragesBounded ==
    /\ [](/\ Geq(brightness_time_sum, ZeroMatrix)
          /\ \A cell \in Cells :
                LET avg == calculate_average(Cur, cell) IN
                avg.den > 0 /\ avg.num >= 0 /\ avg.num <= 100 * avg.den
          /\ instrument_on =>
                Geq(Matrix(LAMBDA i, j : 100 * (now - Val(start_time))), OpenSum(Cur))
          /\ pc = "save_dialog" =>
                \A cell \in Cells :
                    At(Val(save_done(Cur, "ok").saved).avg, cell) \in 0..10000)
    /\ [][(instrument_on /\ instrument_on' /\ start_time' = start_time)
             => Geq(brightness_time_sum', brightness_time_sum)]_vars

\* C20 witness: a cell held at 100 since the start of a session, already ticked
C20_Witness ==
    /\ Lasting(Cur)
    /\ \E cell \in EditCells :
          /\ At(brightness_values, cell) = 100
          /\ At(brightness_time_sum, cell) > 0
          /\ At(brightness_time_sum, cell)
                + 100 * (now - Val(At(last_update_time, cell)))
                = 100 * (now - Val(start_time))

=============================================================================
